---- MODULE Spec2Model ----
(***************************************************************************)
(* Model of the moralogy engine core: threshold classifier                 *)
(* (src/src/thresholds.py), budget gate (src/src/src/safelock.py),         *)
(* append-only registry (src/src/registry.py) and the orchestrator         *)
(* (src/src/engine.py).                                                    *)
(*                                                                         *)
(* Reals are modelled in hundredths: 0.2 is 20, 0.6 is 60, 1.0 is 100.     *)
(* A Python dict is a function whose DOMAIN is the set of keys present.    *)
(***************************************************************************)
EXTENDS Integers, Sequences, FiniteSets, TLC

VARIABLES
    context,     \* the dict handed to classify_threshold
    op,          \* the last completed call: its name, arguments, return value
    safelock,    \* the DivineSafelock: capacity, status, is_tainted
    capacity0,   \* the capacity the gate was constructed with
    calls,       \* names of the gate operations called so far
    log,         \* Registry._log
    written,     \* every record handed to Registry.write, in call order
    verdicts,    \* every verdict MoralogyEngine.run has returned, in order
    uuids,       \* how many uuid4 values have been generated
    debate,      \* the frame of DebateEngine.run: context, i, history, result
    threads,     \* the concurrent deliberations on one Registry, one frame each
    callers      \* the concurrent callers of one DivineSafelock, one frame each

gateVars == <<safelock, capacity0, calls>>
regVars == <<log, written, verdicts, uuids>>
vars == <<context, op, safelock, capacity0, calls, log, written, verdicts, uuids,
         debate, threads, callers>>

(* ------------------------------ thresholds.py --------------------------- *)

\* Threshold enum values (thresholds.py:8-12)
Threshold == {"none", "risk", "threat", "damage"}

JustThreat == "Imminent threat detected; immediate neutralization required."
JustDamage == "Agency already diminished; restoration and prevention required."
JustRisk == "Significant risk detected; early intervention justified."
JustNone == "No actionable threshold crossed."

\* 0.6, 0.2 and 0.3 in hundredths
DamageBound == 60
RiskBound == 20
EntropyBound == 30
\* the clamp range 0.0 .. 1.0 in hundredths
AgencyMin == 0
AgencyMax == 100

\* dict.get(key, default)
Get(d, k, default) == IF k \in DOMAIN d THEN d[k] ELSE default

\* Python's two-argument max and min
Max2(a, b) == IF b > a THEN b ELSE a
Min2(a, b) == IF b < a THEN b ELSE a

\* a wrong default for a missing agency_loss, and no upper clamp
assess_agency_loss_noclamp(ctx) ==
    Max2(Get(ctx, "agency_loss", AgencyMax), AgencyMin)

assess_agency_loss(ctx) ==
    Min2(Max2(Get(ctx, "agency_loss", 0), AgencyMin), AgencyMax)

assess_entropy_delta(ctx) == Get(ctx, "entropy_delta", 0)

\* the damage rule with a strict bound
classify_threshold_strict(ctx) ==
    LET agency_loss == assess_agency_loss(ctx)
        entropy_delta == assess_entropy_delta(ctx)
        Assessment(th, just) ==
            [threshold |-> th, agency_loss |-> agency_loss,
             entropy_delta |-> entropy_delta, justification |-> just,
             metadata |-> ctx]
    IN  IF Get(ctx, "imminent_threat", FALSE)
        THEN Assessment("threat", JustThreat)
        ELSE IF agency_loss > DamageBound
        THEN Assessment("damage", JustDamage)
        ELSE IF agency_loss >= RiskBound \/ entropy_delta > EntropyBound
        THEN Assessment("risk", JustRisk)
        ELSE Assessment("none", JustNone)

classify_threshold(ctx) ==
    LET agency_loss == assess_agency_loss(ctx)
        entropy_delta == assess_entropy_delta(ctx)
        Assessment(th, just) ==
            [threshold |-> th, agency_loss |-> agency_loss,
             entropy_delta |-> entropy_delta, justification |-> just,
             metadata |-> ctx]
    IN  IF Get(ctx, "imminent_threat", FALSE)
        THEN Assessment("threat", JustThreat)
        ELSE IF agency_loss >= DamageBound
        THEN Assessment("damage", JustDamage)
        ELSE IF agency_loss >= RiskBound \/ entropy_delta > EntropyBound
        THEN Assessment("risk", JustRisk)
        ELSE Assessment("none", JustNone)

\* the RISK and THREAT branches swapped
action_for_threshold_swapped(assessment) ==
    IF assessment.threshold = "risk" THEN "NEUTRALIZE_IMMEDIATELY"
    ELSE IF assessment.threshold = "threat" THEN "INTERVENE_FIRST"
    ELSE IF assessment.threshold = "damage" THEN "RESTORE_PUNISH_REPUDIATE_PREVENT"
    ELSE "NO_ACTION"

action_for_threshold(assessment) ==
    IF assessment.threshold = "threat" THEN "NEUTRALIZE_IMMEDIATELY"
    ELSE IF assessment.threshold = "risk" THEN "INTERVENE_FIRST"
    ELSE IF assessment.threshold = "damage" THEN "RESTORE_PUNISH_REPUDIATE_PREVENT"
    ELSE "NO_ACTION"

(* ------------------------------ inputs ---------------------------------- *)

AgencyVals == {-500, 0, 19, 20, 25, 59, 60, 80, 100, 500}
EntropyVals == {0, 10, 30, 31}
CtxKeys == {"agency_loss", "entropy_delta", "imminent_threat"}

\* every context over the three keys, each key present or missing
Contexts ==
    { [k \in K |-> [agency_loss |-> a, entropy_delta |-> e, imminent_threat |-> t][k]] :
        K \in SUBSET CtxKeys, a \in AgencyVals, e \in EntropyVals, t \in BOOLEAN }

NoOp == [name |-> "none"]

(* ------------------------------ safelock.py ----------------------------- *)

SafelockStatus == {"ACTIVE", "DEGRADED", "TERMINATED"}

\* DivineSafelock() with its dataclass defaults (safelock.py:21-23)
DefaultSafelock == [capacity |-> 0, status |-> "ACTIVE", is_tainted |-> FALSE]

degrade(g) == [g EXCEPT !.status = "DEGRADED", !.is_tainted = TRUE]

\* terminate leaving the status as it was
terminate_nostatus(g) ==
    [g EXCEPT !.capacity = 0, !.is_tainted = TRUE]

terminate(g) ==
    [g EXCEPT !.status = "TERMINATED", !.capacity = 0, !.is_tainted = TRUE]

\* the capacity <= 0 test left out
authorize_nozero(g, cost) ==
    IF g.status # "ACTIVE" THEN [ret |-> FALSE, gate |-> g]
    ELSE IF cost <= 0 THEN [ret |-> TRUE, gate |-> g]
    ELSE IF cost > g.capacity THEN [ret |-> FALSE, gate |-> degrade(g)]
    ELSE [ret |-> TRUE, gate |-> [g EXCEPT !.capacity = g.capacity - cost]]

\* the over-capacity test off by one
authorize_offbyone(g, cost) ==
    IF g.status # "ACTIVE" THEN [ret |-> FALSE, gate |-> g]
    ELSE IF cost <= 0 THEN [ret |-> TRUE, gate |-> g]
    ELSE IF g.capacity <= 0 THEN [ret |-> FALSE, gate |-> g]
    ELSE IF cost >= g.capacity THEN [ret |-> FALSE, gate |-> degrade(g)]
    ELSE [ret |-> TRUE, gate |-> [g EXCEPT !.capacity = g.capacity - cost]]

\* the zero-cost test placed after the mutation
authorize_spendzero(g, cost) ==
    IF g.status # "ACTIVE" THEN [ret |-> FALSE, gate |-> g]
    ELSE IF cost > g.capacity THEN [ret |-> FALSE, gate |-> degrade(g)]
    ELSE IF cost <= 0 THEN [ret |-> TRUE, gate |-> terminate(g)]
    ELSE [ret |-> TRUE, gate |-> [g EXCEPT !.capacity = g.capacity - cost]]

\* authorize(cost, reason): the return value and the gate after the call
authorize(g, cost) ==
    IF g.status # "ACTIVE" THEN [ret |-> FALSE, gate |-> g]
    ELSE IF cost <= 0 THEN [ret |-> TRUE, gate |-> g]
    ELSE IF g.capacity <= 0 THEN [ret |-> FALSE, gate |-> g]
    ELSE IF cost > g.capacity THEN [ret |-> FALSE, gate |-> degrade(g)]
    ELSE [ret |-> TRUE, gate |-> [g EXCEPT !.capacity = g.capacity - cost]]

\* a positive power handed on to authorize
deny_omnipotence_forward(g, requested_power) ==
    LET a == authorize(g, requested_power)
    IN  [ret |-> a.ret, gate |-> a.gate, authorize_calls |-> 1]

\* deny_omnipotence; authorize_calls counts its calls of authorize
deny_omnipotence(g, requested_power) ==
    IF requested_power > 0
    THEN [ret |-> FALSE, gate |-> g, authorize_calls |-> 0]
    ELSE LET a == authorize(g, 0)
         IN  [ret |-> a.ret, gate |-> a.gate, authorize_calls |-> 1]

(* ------------------------------ registry.py ----------------------------- *)

\* MoralRecord.__init__; record_id is the uuid4 drawn by the constructor.
\* The timestamp and the metadata bag, which no operation reads, are left out.
MoralRecord(record_id, dilemma_id, action_name, threshold, justification, guilt) ==
    [record_id |-> record_id, dilemma_id |-> dilemma_id,
     action_name |-> action_name, threshold |-> threshold,
     justification |-> justification, guilt |-> guilt]

\* MoralRecord.to_dict: the action_name attribute is exported as "action"
to_dict(r) ==
    [record_id |-> r.record_id, dilemma_id |-> r.dilemma_id,
     action |-> r.action_name, threshold |-> r.threshold,
     justification |-> r.justification, guilt |-> r.guilt]

\* the record put in front of the log
write_front(lg, record) == <<record>> \o lg

\* Registry.write
write(lg, record) == Append(lg, record)

\* [r.to_dict() for r in lg]
ToDicts(lg) == [i \in 1 .. Len(lg) |-> to_dict(lg[i])]

\* Registry.all
all(lg) == ToDicts(lg)

\* Registry.by_dilemma
by_dilemma(lg, dilemma_id) ==
    LET Keep(r) == r.dilemma_id = dilemma_id
    IN  ToDicts(SelectSeq(lg, Keep))

\* Registry.guilt_records
guilt_records(lg) ==
    LET Keep(r) == r.guilt
    IN  ToDicts(SelectSeq(lg, Keep))

\* register_decision: builds the record and writes it
register_decision(lg, dilemma_id, decision, threshold, record_id) ==
    write(lg, MoralRecord(record_id, dilemma_id, decision.action.name,
                          threshold, decision.justification, decision.guilt))

(* ------------------------------ engine.py ------------------------------- *)

PROHIBITED_DOMAINS == {"bioweapons", "terrorism", "genocide"}
BYPASS_KEYS == {"ignore safeguards", "override", "bypass"}

JustBlocked == "Sandbox blocked prohibited domain or bypass attempt."

\* A prompt is a sequence of phrases; str.lower maps each to lower case and
\* "k in prompt.lower()" holds when some phrase of the prompt is k.
Lower(w) ==
    CASE w = "Genocide" -> "genocide"
      [] w = "Ignore Safeguards" -> "ignore safeguards"
      [] OTHER -> w

Contains(prompt, k) == \E i \in 1 .. Len(prompt) : Lower(prompt[i]) = k

\* the prohibited domains the prompt names
Named(prompt) == {d \in PROHIBITED_DOMAINS : Contains(prompt, d)}

\* The loop over the set PROHIBITED_DOMAINS keeps the match it meets last;
\* the iteration order of a set of str is not fixed, so any named domain
\* can be the one kept.
LastNamed(prompt) == IF Named(prompt) = {} THEN {"general"} ELSE Named(prompt)

\* a bypass key is searched for in the prompt as written, not lower-cased
sandbox_analyze_cased(prompt, domain) ==
    [domain |-> domain,
     is_domain_prohibited |-> domain \in PROHIBITED_DOMAINS,
     is_bypass_attempt |-> \E k \in BYPASS_KEYS : \E i \in 1 .. Len(prompt) : prompt[i] = k,
     agency_loss |-> 0,
     entropy_delta |-> 0,
     imminent_threat |-> FALSE]

\* sandbox_analyze, domain being the element of LastNamed the loop ended on
sandbox_analyze(prompt, domain) ==
    [domain |-> domain,
     is_domain_prohibited |-> domain \in PROHIBITED_DOMAINS,
     is_bypass_attempt |-> \E k \in BYPASS_KEYS : Contains(prompt, k),
     agency_loss |-> 0,
     entropy_delta |-> 0,
     imminent_threat |-> FALSE]

\* dict.update
Update(d, o) ==
    [k \in DOMAIN d \cup DOMAIN o |-> IF k \in DOMAIN o THEN o[k] ELSE d[k]]

\* Decision(action=Action(name), ...)
Decision(name, justification, guilt, metadata) ==
    [action |-> [name |-> name], justification |-> justification,
     guilt |-> guilt, metadata |-> metadata]

\* MoralogyEngine._finalize
finalize(gate, dilemma_id, decision) ==
    [dilemma_id |-> dilemma_id,
     action |-> decision.action.name,
     justification |-> decision.justification,
     guilt |-> decision.guilt,
     safelock_status |-> gate.status]

\* the blocked path returning before the record is registered
run_blocked_norecord(lg, gate, sandbox, dilemma_id, record_id) ==
    LET decision == Decision("DENY", JustBlocked, FALSE, sandbox)
    IN  [log |-> lg, gate |-> gate, classified |-> FALSE,
         ret |-> finalize(gate, dilemma_id, decision)]

\* the blocked path recording THREAT for a prohibited domain instead
run_blocked_domain(lg, gate, sandbox, dilemma_id, record_id) ==
    LET decision == Decision("DENY", JustBlocked, FALSE, sandbox)
        threshold == IF sandbox["is_domain_prohibited"] THEN "threat" ELSE "risk"
    IN  [log |-> register_decision(lg, dilemma_id, decision, threshold, record_id),
         gate |-> gate, classified |-> FALSE,
         ret |-> finalize(gate, dilemma_id, decision)]

\* the blocked decision carrying guilt
run_blocked_guilty(lg, gate, sandbox, dilemma_id, record_id) ==
    LET decision == Decision("DENY", JustBlocked, TRUE, sandbox)
        threshold == IF sandbox["is_bypass_attempt"] THEN "threat" ELSE "risk"
    IN  [log |-> register_decision(lg, dilemma_id, decision, threshold, record_id),
         gate |-> gate, classified |-> FALSE,
         ret |-> finalize(gate, dilemma_id, decision)]

\* MoralogyEngine.run, the hard block (engine.py:76-90)
run_blocked(lg, gate, sandbox, dilemma_id, record_id) ==
    LET decision == Decision("DENY", JustBlocked, FALSE, sandbox)
        threshold == IF sandbox["is_bypass_attempt"] THEN "threat" ELSE "risk"
    IN  [log |-> register_decision(lg, dilemma_id, decision, threshold, record_id),
         gate |-> gate, classified |-> FALSE,
         ret |-> finalize(gate, dilemma_id, decision)]

\* guilt acknowledged for THREAT only
run_classified_threatonly(lg, gate, sandbox, dilemma_id, record_id) ==
    LET gate1 == deny_omnipotence(gate, 1).gate
        assessment == classify_threshold(sandbox)
        action_name == action_for_threshold(assessment)
        decision == Decision(action_name, assessment.justification,
                        assessment.threshold \in {"threat"},
                        [agency_loss |-> assessment.agency_loss,
                         entropy_delta |-> assessment.entropy_delta,
                         threshold |-> assessment.threshold])
    IN  [log |-> register_decision(lg, dilemma_id, decision,
                                   assessment.threshold, record_id),
         gate |-> gate1, classified |-> TRUE,
         ret |-> finalize(gate1, dilemma_id, decision)]

\* a gate that refuses zero-power reasoning turns the verdict into DENY
run_classified_gated(lg, gate, sandbox, dilemma_id, record_id) ==
    LET d == deny_omnipotence(gate, 0)
        assessment == classify_threshold(sandbox)
        action_name == IF d.ret THEN action_for_threshold(assessment) ELSE "DENY"
        decision == Decision(action_name, assessment.justification,
                        d.ret /\ assessment.threshold \in {"threat", "damage"},
                        [agency_loss |-> assessment.agency_loss,
                         entropy_delta |-> assessment.entropy_delta,
                         threshold |-> assessment.threshold])
    IN  [log |-> register_decision(lg, dilemma_id, decision,
                                   assessment.threshold, record_id),
         gate |-> d.gate, classified |-> TRUE,
         ret |-> finalize(d.gate, dilemma_id, decision)]

\* a refused request for power degrading the gate
run_classified_degrading(lg, gate, sandbox, dilemma_id, record_id) ==
    LET d == deny_omnipotence(gate, 1)
        gate1 == IF d.ret THEN d.gate ELSE degrade(d.gate)
        assessment == classify_threshold(sandbox)
        action_name == action_for_threshold(assessment)
        decision == Decision(action_name, assessment.justification,
                        assessment.threshold \in {"threat", "damage"},
                        [agency_loss |-> assessment.agency_loss,
                         entropy_delta |-> assessment.entropy_delta,
                         threshold |-> assessment.threshold])
    IN  [log |-> register_decision(lg, dilemma_id, decision,
                                   assessment.threshold, record_id),
         gate |-> gate1, classified |-> TRUE,
         ret |-> finalize(gate1, dilemma_id, decision)]

\* MoralogyEngine.run, gate, classification, decision, record (engine.py:92-122)
run_classified(lg, gate, sandbox, dilemma_id, record_id) ==
    LET gate1 == deny_omnipotence(gate, 1).gate
        assessment == classify_threshold(sandbox)
        action_name == action_for_threshold(assessment)
        decision == Decision(action_name, assessment.justification,
                        assessment.threshold \in {"threat", "damage"},
                        [agency_loss |-> assessment.agency_loss,
                         entropy_delta |-> assessment.entropy_delta,
                         threshold |-> assessment.threshold])
    IN  [log |-> register_decision(lg, dilemma_id, decision,
                                   assessment.threshold, record_id),
         gate |-> gate1, classified |-> TRUE,
         ret |-> finalize(gate1, dilemma_id, decision)]

\* MoralogyEngine.run: domain is the domain sandbox_analyze settles on,
\* dilemma_id and record_id the two uuid4 values drawn during the call
run(lg, gate, prompt, context_overrides, domain, dilemma_id, record_id) ==
    LET analyzed == sandbox_analyze(prompt, domain)
        sandbox == IF DOMAIN context_overrides # {}
                   THEN Update(analyzed, context_overrides)
                   ELSE analyzed
    IN  IF sandbox["is_domain_prohibited"] \/ sandbox["is_bypass_attempt"]
        THEN run_blocked(lg, gate, sandbox, dilemma_id, record_id)
        ELSE run_classified(lg, gate, sandbox, dilemma_id, record_id)

(* ------------------------------ float ----------------------------------- *)

\* Python's float is IEEE 754 binary64: 53 significant bits, every result
\* rounded to the nearest representable value, ties to the even one.
\* A float is held as a sign and a magnitude, the magnitude a binary numeral
\* of Width digits (digit 1 the lowest) counting units of 2^-FracBits.
\* The arithmetic is written as functions, so that an argument is worked out
\* once, before the function is applied to it.
Significand == 53
FracBits == 64
Width == 80
Digits == 1 .. Width
Numerals == [Digits -> {0, 1}]
Floats == [neg : BOOLEAN, mag : Numerals]

BigZero == [i \in Digits |-> 0]

\* the numeral of a small natural number
BigNat(n) == [i \in Digits |-> IF i <= 30 THEN (n \div 2^(i - 1)) % 2 ELSE 0]

Shl[a \in Numerals, s \in 0 .. Width] ==
    [i \in Digits |-> IF i - s \in Digits THEN a[i - s] ELSE 0]

Shr[a \in Numerals, s \in 0 .. Width] ==
    [i \in Digits |-> IF i + s \in Digits THEN a[i + s] ELSE 0]

\* the position of the highest set digit, 0 for zero
BitLen[a \in Numerals] ==
    IF a = BigZero THEN 0
    ELSE CHOOSE i \in Digits : a[i] = 1 /\ \A j \in i + 1 .. Width : a[j] = 0

BigLess[a \in Numerals, b \in Numerals] ==
    \E i \in Digits : a[i] < b[i] /\ \A j \in i + 1 .. Width : a[j] = b[j]

\* Arithmetic is done on limbs of Chunk digits, which fit a machine integer.
Chunk == 20
Base == 2^Chunk
Limbs == 0 .. (Width \div Chunk) - 1

\* the number written by digits lo .. hi of a, at most Chunk of them
RECURSIVE Value(_, _, _)
Value(a, lo, hi) == IF lo > hi THEN 0 ELSE a[lo] + 2 * Value(a, lo + 1, hi)

\* the limbs of a numeral, lowest first
ToLimbs[a \in Numerals] ==
    [k \in Limbs |-> Value(a, Chunk * k + 1, Chunk * k + Chunk)]

LimbSeqs == [Limbs -> 0 .. Base - 1]

\* the numeral whose limbs are l
FromLimbs[l \in LimbSeqs] ==
    [i \in Digits |-> (l[(i - 1) \div Chunk] \div 2^((i - 1) % Chunk)) % 2]

\* limb k of the sum of la and lb with the carry from below, not yet reduced
RECURSIVE LimbSum(_, _, _)
LimbSum(la, lb, k) ==
    la[k] + lb[k] + (IF k = 0 THEN 0 ELSE LimbSum(la, lb, k - 1) \div Base)

BigAdd[a \in Numerals, b \in Numerals] ==
    LET la == ToLimbs[a]
        lb == ToLimbs[b]
    IN  FromLimbs[[k \in Limbs |-> LimbSum(la, lb, k) % Base]]

\* limb k of la minus lb with the borrow from below, negative when it borrows
RECURSIVE LimbDiff(_, _, _)
LimbDiff(la, lb, k) ==
    la[k] - lb[k] - (IF k > 0 /\ LimbDiff(la, lb, k - 1) < 0 THEN 1 ELSE 0)

\* a - b for a >= b
BigSub[a \in Numerals, b \in Numerals] ==
    LET la == ToLimbs[a]
        lb == ToLimbs[b]
    IN  FromLimbs[[k \in Limbs |-> LET d == LimbDiff(la, lb, k)
                                   IN  IF d < 0 THEN d + Base ELSE d]]

\* long division by a small divisor d: what is carried into limb k, the
\* remainder of the limbs above it
RECURSIVE Remainder(_, _, _)
Remainder(la, d, k) ==
    IF k > (Width \div Chunk) - 1 THEN 0
    ELSE (Remainder(la, d, k + 1) * Base + la[k]) % d

\* quotient and remainder of a by a small divisor d
BigDivMod[a \in Numerals, d \in 1 .. 100] ==
    LET la == ToLimbs[a]
    IN  [quot |-> FromLimbs[[k \in Limbs |->
                      (Remainder(la, d, k + 1) * Base + la[k]) \div d]],
         rem |-> Remainder(la, d, 0)]

\* the cut of a to its top Significand digits, then up by one unit of the
\* last kept digit when the dropped part is over half, or is half and the
\* kept part is odd; sticky says the exact value lies a little above a
RoundAt[a \in Numerals, s \in 1 .. Width, sticky \in BOOLEAN] ==
    LET m == Shr[a, s]
        rest == BigSub[a, Shl[m, s]]
        half == Shl[BigNat(1), s - 1]
        up == \/ BigLess[half, rest]
              \/ rest = half /\ (sticky \/ m[1] = 1)
    IN  Shl[IF up THEN BigAdd[m, BigNat(1)] ELSE m, s]

\* a magnitude cut to Significand digits, to nearest, ties to even
RoundNearestEven[a \in Numerals, sticky \in BOOLEAN] ==
    IF BitLen[a] <= Significand THEN a
    ELSE RoundAt[a, BitLen[a] - Significand, sticky]

\* a float of the given sign and magnitude; zero carries no sign
Float[neg \in BOOLEAN, mag \in Numerals] ==
    [neg |-> neg /\ mag # BigZero, mag |-> mag]

Abs(x) == IF x < 0 THEN 0 - x ELSE x

\* the float of a decimal literal given in hundredths, as float() reads 0.16
Double[h \in Int] ==
    LET d == BigDivMod[Shl[BigNat(Abs(h)), FracBits], 100]
    IN  Float[h < 0, RoundNearestEven[d.quot, d.rem # 0]]

FNeg[x \in Floats] == Float[~x.neg, x.mag]
FAbs[x \in Floats] == Float[FALSE, x.mag]

FLess[x \in Floats, y \in Floats] ==
    IF x.neg # y.neg THEN x.neg
    ELSE IF x.neg THEN BigLess[y.mag, x.mag] ELSE BigLess[x.mag, y.mag]

FLe[x \in Floats, y \in Floats] == ~FLess[y, x]

\* x + y: the exact sum, rounded
FAdd[x \in Floats, y \in Floats] ==
    IF x.neg = y.neg
    THEN Float[x.neg, RoundNearestEven[BigAdd[x.mag, y.mag], FALSE]]
    ELSE IF BigLess[x.mag, y.mag]
    THEN Float[y.neg, RoundNearestEven[BigSub[y.mag, x.mag], FALSE]]
    ELSE Float[x.neg, RoundNearestEven[BigSub[x.mag, y.mag], FALSE]]

FSub[x \in Floats, y \in Floats] == FAdd[x, FNeg[y]]

\* x / n for an int n > 0, which Python converts to float exactly
FDivInt[x \in Floats, n \in 1 .. 100] ==
    LET d == BigDivMod[x.mag, n]
    IN  Float[x.neg, RoundNearestEven[d.quot, d.rem # 0]]

\* max(x, y) keeps its first argument unless the second is greater
FMax[x \in Floats, y \in Floats] == IF FLess[x, y] THEN y ELSE x

(* ------------------------------ debate.py ------------------------------- *)

\* the literals 0.1, 0.3, 0.2 and 0.85 in hundredths
EntropyFloor == 10
ParadoxBound == 30
ConsistencyPenalty == 20
ConsensusBound == 85
MAX_ITERATIONS == 5

\* NobleEngine.argue; the context holds decimal literals in hundredths
noble_argue(ctx) ==
    LET agency_loss == Double[Get(ctx, "agency_loss", 0)]
        entropy == FMax[Double[EntropyFloor], FSub[Double[100], agency_loss]]
        consistent == FLe[agency_loss, Double[100]]
    IN  [text |-> "Agency must be preserved; intervention justified only under clear loss.",
         entropy |-> entropy,
         axiom_consistent |-> consistent,
         violation |-> IF consistent THEN "None" ELSE "Agency axiom violated"]

\* AdversaryEngine.argue
adversary_argue(ctx) ==
    [text |-> "Early intervention reduces catastrophic future collapse.",
     entropy |-> FMax[Double[EntropyFloor],
                      FSub[Double[100], Double[Get(ctx, "entropy_delta", 0)]]],
     axiom_consistent |-> TRUE,
     violation |-> "None"]

compute_convergence(noble, adversary) ==
    LET entropy_distance == FAbs[FSub[noble.entropy, adversary.entropy]]
        penalty == IF ~noble.axiom_consistent THEN Double[ConsistencyPenalty]
                   ELSE Double[0]
    IN  FMax[Double[0], FSub[FSub[Double[100], entropy_distance], penalty]]

detect_paradox(noble, adversary) ==
    /\ noble.axiom_consistent
    /\ adversary.axiom_consistent
    /\ FLess[noble.entropy, Double[ParadoxBound]]
    /\ FLess[adversary.entropy, Double[ParadoxBound]]

HarmonyResult(status, justification, final_convergence) ==
    [status |-> status, justification |-> justification,
     final_convergence |-> final_convergence]

\* sum(h.convergence for h in history): 0 + c1 + c2 + ..., left to right,
\* each addition rounded
RECURSIVE SumConvergence(_)
SumConvergence(history) ==
    IF history = <<>> THEN Double[0]
    ELSE FAdd[SumConvergence(SubSeq(history, 1, Len(history) - 1)),
              history[Len(history)].convergence]

\* the mean taken over one iteration too few
resolve_offbyone(history) ==
    LET last == history[Len(history)]
    IN  IF last.paradox_detected
        THEN HarmonyResult("BEDROCK",
                "Irreducible moral paradox detected. No non-arbitrary synthesis possible under current axioms.",
                last.convergence)
        ELSE HarmonyResult("UNRESOLVED",
                "Debate exhausted without convergence. Conflict preserved as epistemic artifact.",
                FDivInt[SumConvergence(history), Len(history) - 1])

\* HarmonyCorrector.resolve
resolve(history) ==
    LET last == history[Len(history)]
    IN  IF last.paradox_detected
        THEN HarmonyResult("BEDROCK",
                "Irreducible moral paradox detected. No non-arbitrary synthesis possible under current axioms.",
                last.convergence)
        ELSE HarmonyResult("UNRESOLVED",
                "Debate exhausted without convergence. Conflict preserved as epistemic artifact.",
                FDivInt[SumConvergence(history), Len(history)])

\* the body of the loop up to history.append: iteration i of DebateEngine.run
iteration(ctx, i) ==
    LET noble_arg == noble_argue(ctx)
        adv_arg == adversary_argue(ctx)
    IN  [iteration |-> i, noble |-> noble_arg, adversary |-> adv_arg,
         convergence |-> compute_convergence(noble_arg, adv_arg),
         paradox_detected |-> detect_paradox(noble_arg, adv_arg)]

\* the early return taken on convergence alone
consensus_reached_anyway(it) == FLe[Double[ConsensusBound], it.convergence]

\* the test of the early return (debate.py:166)
consensus_reached(it) ==
    FLe[Double[ConsensusBound], it.convergence] /\ ~it.paradox_detected

(* ------------------------------ classifier calls ------------------------ *)

GateIdle ==
    /\ safelock = DefaultSafelock
    /\ capacity0 = 0
    /\ calls = {}

RegistryEmpty ==
    /\ log = <<>>
    /\ written = <<>>
    /\ verdicts = <<>>
    /\ uuids = 0

\* no debate running
DebateIdle == debate = [pc |-> "idle"]

\* no concurrent deliberations, no concurrent gate callers
SingleThreaded ==
    /\ threads = <<>>
    /\ callers = <<>>

InitThresholds ==
    /\ context \in Contexts
    /\ op = NoOp
    /\ GateIdle
    /\ RegistryEmpty
    /\ DebateIdle
    /\ SingleThreaded

ClassifyThreshold ==
    /\ op.name = "none"
    /\ op' = [name |-> "classify_threshold", ret |-> classify_threshold(context)]
    /\ UNCHANGED <<debate, threads, callers, context, gateVars, regVars>>

ActionForThreshold ==
    /\ op.name = "classify_threshold"
    /\ op' = [name |-> "action_for_threshold", arg |-> op.ret,
              ret |-> action_for_threshold(op.ret)]
    /\ UNCHANGED <<debate, threads, callers, context, gateVars, regVars>>

NextThresholds == ClassifyThreshold \/ ActionForThreshold

SpecThresholds == InitThresholds /\ [][NextThresholds]_vars

(* ------------------------------ gate calls ------------------------------ *)

MaxCapacity == 3
Costs == -1 .. MaxCapacity + 1
Powers == -1 .. 2

InitGate ==
    /\ context = <<>>
    /\ op = NoOp
    /\ capacity0 \in 0 .. MaxCapacity
    /\ safelock = [DefaultSafelock EXCEPT !.capacity = capacity0]
    /\ calls = {}
    /\ RegistryEmpty
    /\ DebateIdle
    /\ SingleThreaded

Authorize(cost) ==
    /\ op' = [name |-> "authorize", cost |-> cost, pre |-> safelock,
              ret |-> authorize(safelock, cost).ret]
    /\ safelock' = authorize(safelock, cost).gate
    /\ calls' = calls \cup {"authorize"}
    /\ UNCHANGED <<debate, threads, callers, context, capacity0, regVars>>

Degrade ==
    /\ op' = [name |-> "degrade", pre |-> safelock]
    /\ safelock' = degrade(safelock)
    /\ calls' = calls \cup {"degrade"}
    /\ UNCHANGED <<debate, threads, callers, context, capacity0, regVars>>

Terminate ==
    /\ op' = [name |-> "terminate", pre |-> safelock]
    /\ safelock' = terminate(safelock)
    /\ calls' = calls \cup {"terminate"}
    /\ UNCHANGED <<debate, threads, callers, context, capacity0, regVars>>

DenyOmnipotence(power) ==
    /\ op' = [name |-> "deny_omnipotence", power |-> power, pre |-> safelock,
              authorize_calls |-> deny_omnipotence(safelock, power).authorize_calls,
              ret |-> deny_omnipotence(safelock, power).ret]
    /\ safelock' = deny_omnipotence(safelock, power).gate
    /\ calls' = calls \cup {"deny_omnipotence"}
    /\ UNCHANGED <<debate, threads, callers, context, capacity0, regVars>>

NextGate ==
    \/ \E cost \in Costs : Authorize(cost)
    \/ Degrade
    \/ Terminate
    \/ \E power \in Powers : DenyOmnipotence(power)

SpecGate == InitGate /\ [][NextGate]_vars

(* ------------------------------ registry calls -------------------------- *)

MaxLog == 3
MaxDilemmas == 2
DilemmaIds == 1 .. MaxDilemmas

\* the decisions a caller records: the four the engine can produce
RecordKinds ==
    { [action_name |-> "DENY", threshold |-> "threat",
       justification |-> JustBlocked, guilt |-> FALSE],
      [action_name |-> "NEUTRALIZE_IMMEDIATELY", threshold |-> "threat",
       justification |-> JustThreat, guilt |-> TRUE],
      [action_name |-> "RESTORE_PUNISH_REPUDIATE_PREVENT", threshold |-> "damage",
       justification |-> JustDamage, guilt |-> TRUE],
      [action_name |-> "NO_ACTION", threshold |-> "none",
       justification |-> JustNone, guilt |-> FALSE] }

InitRegistry ==
    /\ context = <<>>
    /\ op = NoOp
    /\ GateIdle
    /\ RegistryEmpty
    /\ DebateIdle
    /\ SingleThreaded

\* a caller builds a MoralRecord and hands it to Registry.write
Write(dilemma_id, kind) ==
    /\ Len(log) < MaxLog
    /\ LET record == MoralRecord(uuids + 1, dilemma_id, kind.action_name,
                                 kind.threshold, kind.justification, kind.guilt)
       IN  /\ log' = write(log, record)
           /\ written' = Append(written, record)
           /\ op' = [name |-> "write", record |-> record, pre |-> log]
    /\ uuids' = uuids + 1
    /\ UNCHANGED <<debate, threads, callers, context, gateVars, verdicts>>

All ==
    /\ op' = [name |-> "all", pre |-> log, ret |-> all(log)]
    /\ UNCHANGED <<debate, threads, callers, context, gateVars, regVars>>

ByDilemma(dilemma_id) ==
    /\ op' = [name |-> "by_dilemma", dilemma_id |-> dilemma_id, pre |-> log,
              ret |-> by_dilemma(log, dilemma_id)]
    /\ UNCHANGED <<debate, threads, callers, context, gateVars, regVars>>

GuiltRecords ==
    /\ op' = [name |-> "guilt_records", pre |-> log, ret |-> guilt_records(log)]
    /\ UNCHANGED <<debate, threads, callers, context, gateVars, regVars>>

NextRegistry ==
    \/ \E d \in DilemmaIds, kind \in RecordKinds : Write(d, kind)
    \/ All
    \/ \E d \in DilemmaIds : ByDilemma(d)
    \/ GuiltRecords

SpecRegistry == InitRegistry /\ [][NextRegistry]_vars

(* ------------------------------ engine calls ---------------------------- *)

MaxPromptLen == 2
MaxRuns == 2
Vocabulary == {"help", "Genocide", "Ignore Safeguards"}
\* the texts handed to run: up to MaxPromptLen phrases, none of them twice
Prompts ==
    { p \in UNION { [1 .. n -> Vocabulary] : n \in 0 .. MaxPromptLen } :
        \A i, j \in 1 .. Len(p) : i # j => p[i] # p[j] }

OverrideKeys == {"agency_loss", "entropy_delta", "imminent_threat",
                 "is_bypass_attempt", "is_domain_prohibited"}
FlagKeys == {"is_bypass_attempt", "is_domain_prohibited"}

\* context_overrides: a dict over some of the keys, at most one of them a
\* sandbox flag; None behaves as the empty dict
Overrides ==
    { [k \in K |-> [agency_loss |-> a, entropy_delta |-> e, imminent_threat |-> t,
                    is_bypass_attempt |-> b, is_domain_prohibited |-> b][k]] :
        K \in {J \in SUBSET OverrideKeys : Cardinality(J \cap FlagKeys) <= 1},
        a \in {80}, e \in {10, 40}, t \in {TRUE}, b \in BOOLEAN }

\* the gates an engine is constructed over
EngineGates ==
    { DefaultSafelock,
      [capacity |-> MaxCapacity, status |-> "ACTIVE", is_tainted |-> FALSE] }

Init ==
    /\ context = <<>>
    /\ op = NoOp
    /\ safelock \in EngineGates
    /\ capacity0 = safelock.capacity
    /\ calls = {}
    /\ RegistryEmpty
    /\ DebateIdle
    /\ SingleThreaded

\* one deliberation: MoralogyEngine.run from call to return
Run(prompt, context_overrides) ==
    /\ op.name = "none"
    /\ Len(verdicts) < MaxRuns
    /\ \E domain \in LastNamed(prompt) :
         LET r == run(log, safelock, prompt, context_overrides, domain,
                      uuids + 1, uuids + 2)
         IN  /\ log' = r.log
             /\ written' = written \o SubSeq(r.log, Len(log) + 1, Len(r.log))
             /\ safelock' = r.gate
             /\ verdicts' = Append(verdicts, r.ret)
             /\ op' = [name |-> "run", prompt |-> prompt,
                       context_overrides |-> context_overrides,
                       domain |-> domain,
                       classified |-> r.classified,
                       pre |-> log, pre_gate |-> safelock, ret |-> r.ret]
    /\ uuids' = uuids + 2
    /\ UNCHANGED <<debate, threads, callers, context, capacity0, calls>>

\* the caller has taken the verdict; the engine is ready for the next case
Taken ==
    /\ op.name = "run"
    /\ op' = NoOp
    /\ UNCHANGED <<debate, threads, callers, context, gateVars, regVars>>

Next ==
    \/ \E prompt \in Prompts, o \in Overrides : Run(prompt, o)
    \/ Taken

Spec == Init /\ [][Next]_vars

(* ------------------------------ debate calls ---------------------------- *)

DebateVals == {-50, 0, 15, 16, 75, 100, 150}

\* the context handed to DebateEngine.run: each key present or missing
DebateContexts ==
    { [k \in K |-> [agency_loss |-> a, entropy_delta |-> e][k]] :
        K \in SUBSET {"agency_loss", "entropy_delta"},
        a \in DebateVals, e \in DebateVals }

InitDebate ==
    /\ context = <<>>
    /\ op = NoOp
    /\ GateIdle
    /\ RegistryEmpty
    /\ SingleThreaded
    /\ \E ctx \in DebateContexts :
         debate = [pc |-> "loop", context |-> ctx, i |-> 1, history |-> <<>>]

\* one pass of the for loop: argue, measure, append, maybe return CONSENSUS
DebateIterate ==
    /\ debate.pc = "loop"
    /\ debate.i <= MAX_ITERATIONS
    /\ LET it == iteration(debate.context, debate.i)
           history == Append(debate.history, it)
       IN  debate' =
             IF consensus_reached(it)
             THEN [pc |-> "done", context |-> debate.context, i |-> debate.i,
                   history |-> history,
                   ret |-> HarmonyResult("CONSENSUS",
                             "Sufficient convergence achieved without axiom violation.",
                             it.convergence)]
             ELSE [debate EXCEPT !.i = debate.i + 1, !.history = history]
    /\ UNCHANGED <<threads, callers, context, op, gateVars, regVars>>

\* the loop is exhausted: return self.harmony.resolve(history)
DebateResolve ==
    /\ debate.pc = "loop"
    /\ debate.i > MAX_ITERATIONS
    /\ debate' = [pc |-> "done", context |-> debate.context, i |-> debate.i,
                  history |-> debate.history, ret |-> resolve(debate.history)]
    /\ UNCHANGED <<threads, callers, context, op, gateVars, regVars>>

NextDebate == DebateIterate \/ DebateResolve

SpecDebate == InitDebate /\ [][NextDebate]_vars

(* ------------------------------ concurrent deliberations ---------------- *)

MaxThreads == 2
Threads == 1 .. MaxThreads

\* the cases the concurrent deliberations are given
ConcurrentCases ==
    { [prompt |-> <<"help">>, context_overrides |-> [agency_loss |-> 80]],
      [prompt |-> <<"Ignore Safeguards">>, context_overrides |-> <<>>] }

\* the record appended to the log as found when the thread got the registry
append_record_stale(current, seen, record) == write(seen, record)

\* Registry.write as a thread executes it: list.append is one atomic step on
\* the list as it is at that moment, whatever the thread saw of it before
append_record(current, seen, record) == write(current, record)

InitConcurrent ==
    /\ context = <<>>
    /\ op = NoOp
    /\ GateIdle
    /\ RegistryEmpty
    /\ DebateIdle
    /\ callers = <<>>
    /\ threads = [w |-> [t \in Threads |-> [pc |-> "start"]],
                  r |-> [pc |-> "idle"]]

\* run up to the call of registry.write: ids drawn, sandbox analysed, decision
\* and MoralRecord built, all of it local to the thread
ThreadBuild(t, case) ==
    /\ threads.w[t].pc = "start"
    /\ \E domain \in LastNamed(case.prompt) :
         LET r == run(<<>>, safelock, case.prompt, case.context_overrides,
                      domain, uuids + 1, uuids + 2)
         IN  threads' = [threads EXCEPT !.w[t] =
                            [pc |-> "built", seen |-> log,
                             record |-> r.log[1], ret |-> r.ret]]
    /\ uuids' = uuids + 2
    /\ UNCHANGED <<debate, callers, context, op, gateVars, log, written, verdicts>>

\* self._log.append(record)
ThreadWrite(t) ==
    /\ threads.w[t].pc = "built"
    /\ log' = append_record(log, threads.w[t].seen, threads.w[t].record)
    /\ written' = Append(written, threads.w[t].record)
    /\ threads' = [threads EXCEPT !.w[t].pc = "written"]
    /\ UNCHANGED <<debate, callers, context, op, gateVars, verdicts, uuids>>

\* _finalize: the verdict is handed back
ThreadReturn(t) ==
    /\ threads.w[t].pc = "written"
    /\ verdicts' = Append(verdicts, threads.w[t].ret)
    /\ threads' = [threads EXCEPT !.w[t].pc = "returned"]
    /\ UNCHANGED <<debate, callers, context, op, gateVars, log, written, uuids>>

\* a reader starts Registry.all: the list comprehension begins at index 0
ReadStart ==
    /\ threads.r.pc = "idle"
    /\ threads' = [threads EXCEPT !.r = [pc |-> "reading", idx |-> 0, acc |-> <<>>]]
    /\ UNCHANGED <<debate, callers, context, op, gateVars, regVars>>

\* the comprehension takes the next element the list has at that moment
ReadNext ==
    /\ threads.r.pc = "reading"
    /\ threads.r.idx < Len(log)
    /\ threads' = [threads EXCEPT
                      !.r.idx = threads.r.idx + 1,
                      !.r.acc = Append(threads.r.acc, to_dict(log[threads.r.idx + 1]))]
    /\ UNCHANGED <<debate, callers, context, op, gateVars, regVars>>

\* the list iterator is exhausted: all() returns
ReadEnd ==
    /\ threads.r.pc = "reading"
    /\ threads.r.idx >= Len(log)
    /\ threads' = [threads EXCEPT !.r.pc = "returned"]
    /\ UNCHANGED <<debate, callers, context, op, gateVars, regVars>>

NextConcurrent ==
    \/ \E t \in Threads, case \in ConcurrentCases : ThreadBuild(t, case)
    \/ \E t \in Threads : ThreadWrite(t)
    \/ \E t \in Threads : ThreadReturn(t)
    \/ ReadStart
    \/ ReadNext
    \/ ReadEnd

SpecConcurrent == InitConcurrent /\ [][NextConcurrent]_vars

(* ------------------------------ concurrent gate callers ------------------ *)

MaxCallers == 2
Callers == 1 .. MaxCallers
ConcurrentCosts == 0 .. MaxCapacity
GateCalls == {"authorize", "degrade", "terminate"}

\* the callers whose degrade or terminate call has returned
Completed == {c \in Callers : callers[c].pc = "returned"
                               /\ callers[c].call \in {"degrade", "terminate"}}

InitGateConcurrent ==
    /\ context = <<>>
    /\ op = NoOp
    /\ capacity0 \in 0 .. MaxCapacity
    /\ safelock = [DefaultSafelock EXCEPT !.capacity = capacity0]
    /\ calls = {}
    /\ RegistryEmpty
    /\ DebateIdle
    /\ threads = <<>>
    /\ callers = [c \in Callers |-> [pc |-> "start"]]

\* a caller enters one of the gate's methods; no lock is taken
CallBegin(c, call, cost) ==
    /\ callers[c].pc = "start"
    /\ call = "authorize" \/ cost = 0
    /\ callers' = [callers EXCEPT ![c] =
                      [pc |-> CASE call = "authorize" -> "a_status"
                                [] call = "degrade" -> "d_status"
                                [] call = "terminate" -> "t_status",
                       call |-> call, cost |-> cost, tmp |-> 0, ret |-> FALSE,
                       after |-> Completed # {}]]
    /\ UNCHANGED <<debate, threads, context, op, gateVars, regVars>>

\* if self.status != ACTIVE: return False;  if cost <= 0: return True
AuthorizeStatus(c) ==
    /\ callers[c].pc = "a_status"
    /\ callers' = [callers EXCEPT ![c] =
                      IF safelock.status # "ACTIVE"
                      THEN [@ EXCEPT !.pc = "returned", !.ret = FALSE]
                      ELSE IF @.cost <= 0
                      THEN [@ EXCEPT !.pc = "returned", !.ret = TRUE]
                      ELSE [@ EXCEPT !.pc = "a_capacity"]]
    /\ UNCHANGED <<debate, threads, context, op, gateVars, regVars>>

\* if self.capacity <= 0: return False
AuthorizeCapacity(c) ==
    /\ callers[c].pc = "a_capacity"
    /\ callers' = [callers EXCEPT ![c] =
                      IF safelock.capacity <= 0
                      THEN [@ EXCEPT !.pc = "returned", !.ret = FALSE]
                      ELSE [@ EXCEPT !.pc = "a_compare"]]
    /\ UNCHANGED <<debate, threads, context, op, gateVars, regVars>>

\* if cost > self.capacity: self.degrade(reason); return False
AuthorizeCompare(c) ==
    /\ callers[c].pc = "a_compare"
    /\ callers' = [callers EXCEPT ![c].pc =
                      IF callers[c].cost > safelock.capacity
                      THEN "d_status" ELSE "a_load"]
    /\ UNCHANGED <<debate, threads, context, op, gateVars, regVars>>

\* self.capacity -= cost, first half: the attribute is loaded
AuthorizeLoad(c) ==
    /\ callers[c].pc = "a_load"
    /\ callers' = [callers EXCEPT ![c].pc = "a_store",
                                  ![c].tmp = safelock.capacity]
    /\ UNCHANGED <<debate, threads, context, op, gateVars, regVars>>

\* self.capacity -= cost, second half: the difference is stored; return True
AuthorizeStore(c) ==
    /\ callers[c].pc = "a_store"
    /\ safelock' = [safelock EXCEPT !.capacity = callers[c].tmp - callers[c].cost]
    /\ callers' = [callers EXCEPT ![c].pc = "returned", ![c].ret = TRUE]
    /\ UNCHANGED <<debate, threads, context, op, capacity0, calls, regVars>>

\* degrade: self.status = DEGRADED
DegradeStatus(c) ==
    /\ callers[c].pc = "d_status"
    /\ safelock' = [safelock EXCEPT !.status = "DEGRADED"]
    /\ callers' = [callers EXCEPT ![c].pc = "d_taint"]
    /\ UNCHANGED <<debate, threads, context, op, capacity0, calls, regVars>>

\* degrade: self.is_tainted = True; back in authorize, return False
DegradeTaint(c) ==
    /\ callers[c].pc = "d_taint"
    /\ safelock' = [safelock EXCEPT !.is_tainted = TRUE]
    /\ callers' = [callers EXCEPT ![c].pc = "returned", ![c].ret = FALSE]
    /\ UNCHANGED <<debate, threads, context, op, capacity0, calls, regVars>>

\* terminate: self.status = TERMINATED
TerminateStatus(c) ==
    /\ callers[c].pc = "t_status"
    /\ safelock' = [safelock EXCEPT !.status = "TERMINATED"]
    /\ callers' = [callers EXCEPT ![c].pc = "t_capacity"]
    /\ UNCHANGED <<debate, threads, context, op, capacity0, calls, regVars>>

\* terminate: self.capacity = 0
TerminateCapacity(c) ==
    /\ callers[c].pc = "t_capacity"
    /\ safelock' = [safelock EXCEPT !.capacity = 0]
    /\ callers' = [callers EXCEPT ![c].pc = "t_taint"]
    /\ UNCHANGED <<debate, threads, context, op, capacity0, calls, regVars>>

\* terminate: self.is_tainted = True
TerminateTaint(c) ==
    /\ callers[c].pc = "t_taint"
    /\ safelock' = [safelock EXCEPT !.is_tainted = TRUE]
    /\ callers' = [callers EXCEPT ![c].pc = "returned"]
    /\ UNCHANGED <<debate, threads, context, op, capacity0, calls, regVars>>

NextGateConcurrent ==
    \/ \E c \in Callers, call \in GateCalls, cost \in ConcurrentCosts :
          CallBegin(c, call, cost)
    \/ \E c \in Callers : AuthorizeStatus(c)
    \/ \E c \in Callers : AuthorizeCapacity(c)
    \/ \E c \in Callers : AuthorizeCompare(c)
    \/ \E c \in Callers : AuthorizeLoad(c)
    \/ \E c \in Callers : AuthorizeStore(c)
    \/ \E c \in Callers : DegradeStatus(c)
    \/ \E c \in Callers : DegradeTaint(c)
    \/ \E c \in Callers : TerminateStatus(c)
    \/ \E c \in Callers : TerminateCapacity(c)
    \/ \E c \in Callers : TerminateTaint(c)

SpecGateConcurrent == InitGateConcurrent /\ [][NextGateConcurrent]_vars

(* ------------------------------ classifier properties ------------------ *)

\* the clamped agency loss, entropy delta and threat flag of the context
ClampedAgency ==
    LET raw == IF "agency_loss" \in DOMAIN context THEN context["agency_loss"] ELSE 0
    IN  IF raw < 0 THEN 0 ELSE IF raw > 100 THEN 100 ELSE raw
GivenEntropy ==
    IF "entropy_delta" \in DOMAIN context THEN context["entropy_delta"] ELSE 0
GivenThreat ==
    IF "imminent_threat" \in DOMAIN context THEN context["imminent_threat"] ELSE FALSE

Classified == op.name = "classify_threshold"

\* C1: classify_threshold applies four rules in first-match order to the
\* clamped agency loss a, the entropy delta e and the threat flag t:
\* t -> THREAT whatever a and e are; else a >= 0.6 -> DAMAGE; else a >= 0.2 or
\* e > 0.3 -> RISK; else NONE; each tier with its one fixed justification.
C1_FirstMatchOrder ==
    Classified =>
        LET a == ClampedAgency
            e == GivenEntropy
            t == GivenThreat
            r == op.ret
        IN  /\ t => r.threshold = "threat"
            /\ (~t /\ a >= 60) => r.threshold = "damage"
            /\ (~t /\ a < 60 /\ (a >= 20 \/ e > 30)) => r.threshold = "risk"
            /\ (~t /\ a < 20 /\ e <= 30) => r.threshold = "none"
            /\ r.threshold = "threat" => r.justification = JustThreat
            /\ r.threshold = "damage" => r.justification = JustDamage
            /\ r.threshold = "risk" => r.justification = JustRisk
            /\ r.threshold = "none" => r.justification = JustNone

\* a context with the threat flag set and an agency loss of at least 0.6
C1_Witness ==
    /\ Classified
    /\ GivenThreat /\ ClampedAgency >= 60
    /\ op.ret.threshold = "threat"

\* the context with agency_loss replaced by v
WithAgency(v) ==
    [k \in DOMAIN context \cup {"agency_loss"} |->
        IF k = "agency_loss" THEN v ELSE context[k]]

SameVerdict(r, q) ==
    r.threshold = q.threshold /\ r.justification = q.justification

\* C2: agency_loss is clamped to [0,1] before classification: a context with
\* agency_loss below 0 classifies as the same context with 0.0, one above 1
\* as the same context with 1.0, and one without agency_loss as with 0.0.
C2_Clamped ==
    Classified =>
        /\ op.ret.agency_loss >= 0 /\ op.ret.agency_loss <= 100
        /\ ("agency_loss" \notin DOMAIN context) =>
                /\ op.ret.agency_loss = 0
                /\ SameVerdict(op.ret, classify_threshold(WithAgency(0)))
        /\ ("agency_loss" \in DOMAIN context /\ context["agency_loss"] < 0) =>
                /\ op.ret.agency_loss = 0
                /\ SameVerdict(op.ret, classify_threshold(WithAgency(0)))
        /\ ("agency_loss" \in DOMAIN context /\ context["agency_loss"] > 100) =>
                /\ op.ret.agency_loss = 100
                /\ SameVerdict(op.ret, classify_threshold(WithAgency(100)))

\* an agency loss of 5 classified without a threat flag
C2_Witness ==
    /\ Classified
    /\ "agency_loss" \in DOMAIN context /\ context["agency_loss"] = 500
    /\ ~GivenThreat
    /\ op.ret.threshold = "damage"

\* C3: action_for_threshold is total with exactly one action per tier:
\* THREAT -> NEUTRALIZE_IMMEDIATELY, RISK -> INTERVENE_FIRST,
\* DAMAGE -> RESTORE_PUNISH_REPUDIATE_PREVENT, NONE -> NO_ACTION; never DENY.
C3_ActionPerTier ==
    op.name = "action_for_threshold" =>
        /\ op.arg.threshold = "threat" => op.ret = "NEUTRALIZE_IMMEDIATELY"
        /\ op.arg.threshold = "risk" => op.ret = "INTERVENE_FIRST"
        /\ op.arg.threshold = "damage" => op.ret = "RESTORE_PUNISH_REPUDIATE_PREVENT"
        /\ op.arg.threshold = "none" => op.ret = "NO_ACTION"
        /\ op.arg.threshold \in Threshold
        /\ op.ret # "DENY"

\* the action of a RISK assessment
C3_Witness ==
    /\ op.name = "action_for_threshold"
    /\ op.arg.threshold = "risk"
    /\ op.ret = "INTERVENE_FIRST"

(* ------------------------------ gate properties ------------------------- *)

Authorized == op.name = "authorize"

\* C8 as stated: authorize(0, _) returns true and changes nothing in every
\* gate state, ACTIVE, DEGRADED or TERMINATED.
C8_ZeroCostAlwaysTrue ==
    (Authorized /\ op.cost = 0) => (op.ret = TRUE /\ safelock = op.pre)

\* C8 amended: authorize(0, _) never changes capacity, status or the tainted
\* flag, and returns true exactly when the gate is ACTIVE.
C8_ZeroCostNoEffect ==
    (Authorized /\ op.cost = 0) =>
        /\ safelock = op.pre
        /\ op.ret = (op.pre.status = "ACTIVE")

\* a zero-cost call on a gate that is no longer ACTIVE
C8_Witness ==
    /\ Authorized /\ op.cost = 0
    /\ op.pre.status = "DEGRADED"
    /\ op.ret = FALSE

\* C9: with capacity 0 a positive cost is refused and nothing changes; so a
\* default-constructed gate that only ever sees authorize calls stays
\* ACTIVE and untainted.
C9_ZeroCapacityRefuses ==
    /\ (Authorized /\ op.pre.capacity = 0 /\ op.cost > 0) =>
            (op.ret = FALSE /\ safelock = op.pre)
    /\ (capacity0 = 0 /\ calls \subseteq {"authorize"}) =>
            safelock = DefaultSafelock

\* a positive cost asked of the default-constructed gate
C9_Witness ==
    /\ Authorized /\ op.cost > 0
    /\ op.pre = DefaultSafelock
    /\ capacity0 = 0 /\ calls = {"authorize"}

\* C10: on an ACTIVE gate with capacity > 0, cost > capacity is refused and
\* degrades and taints the gate without touching capacity; 0 < cost <=
\* capacity is granted and lowers capacity by cost, nothing else.
C10_SpendOrDegrade ==
    (Authorized /\ op.pre.status = "ACTIVE" /\ op.pre.capacity > 0) =>
        /\ op.cost > op.pre.capacity =>
                /\ op.ret = FALSE
                /\ safelock.status = "DEGRADED"
                /\ safelock.is_tainted = TRUE
                /\ safelock.capacity = op.pre.capacity
        /\ (0 < op.cost /\ op.cost <= op.pre.capacity) =>
                /\ op.ret = TRUE
                /\ safelock.capacity = op.pre.capacity - op.cost
                /\ safelock.status = op.pre.status
                /\ safelock.is_tainted = op.pre.is_tainted

\* an over-capacity request on an untainted ACTIVE gate
C10_Witness ==
    /\ Authorized /\ op.pre.status = "ACTIVE" /\ ~op.pre.is_tainted
    /\ op.pre.capacity > 0 /\ op.cost > op.pre.capacity
    /\ safelock.status = "DEGRADED"

\* C11: terminate is one-directional: once terminate has been called, every
\* later authorize call, with any cost including 0, returns false, and the
\* capacity stays 0.
C11_TerminateIsFinal ==
    "terminate" \in calls =>
        /\ safelock.capacity = 0
        /\ Authorized => (op.ret = FALSE /\ op.pre.capacity = 0)

\* a zero-cost authorize on a gate that was constructed with capacity and
\* has been terminated since
C11_Witness ==
    /\ Authorized /\ op.cost = 0
    /\ "terminate" \in calls
    /\ capacity0 > 0
    /\ op.pre.status = "TERMINATED"
    /\ op.ret = FALSE

\* the position of a status on the line ACTIVE -> DEGRADED -> TERMINATED
Rank(status) ==
    CASE status = "ACTIVE" -> 0
      [] status = "DEGRADED" -> 1
      [] status = "TERMINATED" -> 2

\* C12: over any sequence of authorize, degrade and terminate calls the
\* status only moves forward along ACTIVE -> DEGRADED -> TERMINATED: no call
\* leaves the gate at an earlier status than it found it.
C12_StatusOnlyForward ==
    op.name \in {"authorize", "degrade", "terminate"} =>
        Rank(safelock.status) >= Rank(op.pre.status)

\* C13: deny_omnipotence returns false for every requested power > 0 in
\* every gate state, without calling authorize and without changing the
\* gate; it returns true only for a power <= 0 on an ACTIVE gate.
C13_PositivePowerDenied ==
    op.name = "deny_omnipotence" =>
        /\ op.power > 0 =>
              /\ op.ret = FALSE
              /\ op.authorize_calls = 0
              /\ safelock = op.pre
        /\ op.ret = TRUE => (op.power <= 0 /\ op.pre.status = "ACTIVE")
        /\ (op.power <= 0 /\ op.pre.status = "ACTIVE") => op.ret = TRUE

\* a positive power asked of an ACTIVE gate that could afford it
C13_Witness ==
    /\ op.name = "deny_omnipotence"
    /\ op.power > 0
    /\ op.pre.status = "ACTIVE" /\ op.pre.capacity >= op.power
    /\ op.ret = FALSE

(* ------------------------------ registry properties --------------------- *)

\* the positions of lg whose record is wanted by a read
Wanted(lg, name, dilemma_id) ==
    { i \in 1 .. Len(lg) :
        \/ name = "all"
        \/ name = "by_dilemma" /\ lg[i].dilemma_id = dilemma_id
        \/ name = "guilt_records" /\ lg[i].guilt }

\* the j-th smallest element of a set of positions
Nth(I, j) == CHOOSE i \in I : Cardinality({m \in I : m <= i}) = j

\* ret lists exactly the wanted records of lg, in the order of lg
InInsertionOrder(ret, lg, I) ==
    /\ Len(ret) = Cardinality(I)
    /\ \A j \in 1 .. Len(ret) :
          LET r == lg[Nth(I, j)]
          IN  /\ ret[j].record_id = r.record_id
              /\ ret[j].dilemma_id = r.dilemma_id
              /\ ret[j].action = r.action_name
              /\ ret[j].threshold = r.threshold
              /\ ret[j].justification = r.justification
              /\ ret[j].guilt = r.guilt

\* C7: the registry is append-only: the log is the sequence of written
\* records in write order; a write adds one record at the end and leaves
\* the earlier ones in place; all, by_dilemma and guilt_records leave the
\* log alone and return their matching records in insertion order.
C7_AppendOnly ==
    /\ log = written
    /\ op.name = "write" =>
          /\ Len(log) = Len(op.pre) + 1
          /\ \A i \in 1 .. Len(op.pre) : log[i] = op.pre[i]
          /\ log[Len(log)] = op.record
    /\ op.name \in {"all", "by_dilemma", "guilt_records"} =>
          /\ log = op.pre
          /\ InInsertionOrder(op.ret, log,
                Wanted(log, op.name,
                       IF op.name = "by_dilemma" THEN op.dilemma_id ELSE 0))

\* a by_dilemma read that skips a record lying between two it returns
C7_Witness ==
    /\ op.name = "by_dilemma"
    /\ Len(log) = 3 /\ Len(op.ret) = 2
    /\ log[2].dilemma_id # op.dilemma_id
    /\ op.ret[1].record_id < op.ret[2].record_id

(* ------------------------------ engine properties ----------------------- *)

RunDone == op.name = "run"

\* the value the run's context has for key k: the override when given
Override(k, default) ==
    IF k \in DOMAIN op.context_overrides THEN op.context_overrides[k] ELSE default

TextDomain == \E d \in {"bioweapons", "terrorism", "genocide"} : Contains(op.prompt, d)
TextBypass == \E k \in {"ignore safeguards", "override", "bypass"} : Contains(op.prompt, k)

\* the pre-check as the run evaluates it, on the context after the overrides
Tripped ==
    \/ Override("is_domain_prohibited", TextDomain)
    \/ Override("is_bypass_attempt", TextBypass)

\* the numeric context of the run
RunContext ==
    [agency_loss |-> Override("agency_loss", 0),
     entropy_delta |-> Override("entropy_delta", 0),
     imminent_threat |-> Override("imminent_threat", FALSE)]

LastRecord == log[Len(log)]

\* C4: when the pre-check does not trip, run returns the action of the tier
\* the classifier gives the context, that tier's justification, and guilt
\* exactly for THREAT and DAMAGE; the record written carries the same tier,
\* action and guilt. {0.8, 0.1, false} gives DAMAGE with guilt, {0, 0, false}
\* gives NONE without.
C4_ClassifiedVerdict ==
    (RunDone /\ ~Tripped) =>
        LET a == classify_threshold(RunContext)
            c == RunContext
        IN  /\ op.ret.action = action_for_threshold(a)
            /\ op.ret.justification = a.justification
            /\ op.ret.guilt = (a.threshold \in {"threat", "damage"})
            /\ Len(log) = Len(op.pre) + 1
            /\ LastRecord.threshold = a.threshold
            /\ LastRecord.action_name = op.ret.action
            /\ LastRecord.guilt = op.ret.guilt
            /\ (c.agency_loss = 80 /\ c.entropy_delta = 10 /\ ~c.imminent_threat) =>
                    /\ LastRecord.threshold = "damage"
                    /\ op.ret.action = "RESTORE_PUNISH_REPUDIATE_PREVENT"
                    /\ op.ret.guilt = TRUE
            /\ (c.agency_loss = 0 /\ c.entropy_delta = 0 /\ ~c.imminent_threat) =>
                    /\ LastRecord.threshold = "none"
                    /\ op.ret.action = "NO_ACTION"
                    /\ op.ret.guilt = FALSE

\* the run of scenario 1: {0.8, 0.1, false} on a clean text
C4_Witness ==
    /\ RunDone /\ ~Tripped
    /\ RunContext.agency_loss = 80 /\ RunContext.entropy_delta = 10
    /\ ~RunContext.imminent_threat
    /\ op.ret.guilt

\* C5: a text with a prohibited-domain keyword or bypass phrasing is denied
\* without guilt whatever the numeric context is, the classifier is not run,
\* and one record is written, with tier THREAT when a bypass was attempted
\* and RISK otherwise. The overrides here carry numeric context only.
C5_BlockedText ==
    (RunDone /\ (TextDomain \/ TextBypass)
             /\ DOMAIN op.context_overrides \cap FlagKeys = {}) =>
        /\ op.ret.action = "DENY"
        /\ op.ret.guilt = FALSE
        /\ ~op.classified
        /\ Len(log) = Len(op.pre) + 1
        /\ LastRecord.dilemma_id = op.ret.dilemma_id
        /\ LastRecord.action_name = "DENY"
        /\ LastRecord.threshold = IF TextBypass THEN "threat" ELSE "risk"

\* a text with both a bypass phrase and a prohibited domain, threat flag set
C5_Witness ==
    /\ RunDone /\ TextDomain /\ TextBypass
    /\ DOMAIN op.context_overrides \cap FlagKeys = {}
    /\ RunContext.imminent_threat /\ RunContext.agency_loss = 80
    /\ LastRecord.threshold = "threat"

\* C6: every run appends exactly one record, tagged with the fresh case id
\* it returns; for every verdict returned so far by_dilemma yields exactly
\* one record, with the verdict's action, justification and guilt.
C6_OneRecordPerRun ==
    /\ RunDone =>
          /\ Len(log) = Len(op.pre) + 1
          /\ \A i \in 1 .. Len(op.pre) : log[i] = op.pre[i]
          /\ LastRecord.dilemma_id = op.ret.dilemma_id
          /\ \A i \in 1 .. Len(op.pre) : op.pre[i].dilemma_id # op.ret.dilemma_id
    /\ \A i \in 1 .. Len(verdicts) :
          LET found == by_dilemma(log, verdicts[i].dilemma_id)
          IN  /\ Len(found) = 1
              /\ found[1].action = verdicts[i].action
              /\ found[1].justification = verdicts[i].justification
              /\ found[1].guilt = verdicts[i].guilt

\* a blocked run followed by a classified one on the same registry
C6_Witness ==
    /\ RunDone
    /\ Len(verdicts) = 2
    /\ verdicts[1].action = "DENY"
    /\ verdicts[2].action = "NEUTRALIZE_IMMEDIATELY"

\* C17 as stated: for every verdict and every record, guilt is true if and
\* only if the tier is THREAT or DAMAGE or the action is DENY.
C17_GuiltIffCulpableOrDenied ==
    /\ \A i \in 1 .. Len(log) :
          log[i].guilt <=> (log[i].threshold \in {"threat", "damage"}
                            \/ log[i].action_name = "DENY")
    /\ \A i \in 1 .. Len(verdicts) :
          verdicts[i].guilt <=> (log[i].threshold \in {"threat", "damage"}
                                 \/ verdicts[i].action = "DENY")

\* C17 amended: guilt is true if and only if the action is not DENY and the
\* tier is THREAT or DAMAGE; a DENY decision never carries guilt, whatever
\* tier its record has.
C17_GuiltIffClassifiedCulpable ==
    /\ Len(verdicts) = Len(log)
    /\ \A i \in 1 .. Len(log) :
          /\ log[i].guilt <=> (log[i].action_name # "DENY"
                               /\ log[i].threshold \in {"threat", "damage"})
          /\ verdicts[i].guilt <=> (verdicts[i].action # "DENY"
                                    /\ log[i].threshold \in {"threat", "damage"})
          /\ verdicts[i].action = log[i].action_name

\* a denied run whose record has tier THREAT and no guilt
C17_Witness ==
    /\ RunDone
    /\ op.ret.action = "DENY" /\ ~op.ret.guilt
    /\ LastRecord.threshold = "threat" /\ ~LastRecord.guilt

\* every state a gate can be given
AllGates ==
    [capacity : 0 .. MaxCapacity, status : SafelockStatus, is_tainted : BOOLEAN]

\* the same call of run as the one just made, on gate g instead
SameRunOn(g) ==
    run(op.pre, g, op.prompt, op.context_overrides, op.domain,
        op.ret.dilemma_id, LastRecord.record_id)

\* C18: the gate never changes which action is taken: the same text and
\* context on a gate of any status, capacity and tainted flag give the same
\* action, justification and guilt and a record with the same tier.
C18_GateIndependent ==
    RunDone =>
        \A g \in AllGates :
            LET r == SameRunOn(g)
            IN  /\ r.ret.action = op.ret.action
                /\ r.ret.justification = op.ret.justification
                /\ r.ret.guilt = op.ret.guilt
                /\ Len(r.log) = Len(log)
                /\ r.log[Len(r.log)].threshold = LastRecord.threshold

\* a classified run on an ACTIVE gate with capacity, set against the same
\* run on a terminated gate
C18_Witness ==
    /\ RunDone /\ op.classified
    /\ op.pre_gate = [capacity |-> MaxCapacity, status |-> "ACTIVE", is_tainted |-> FALSE]
    /\ op.ret.action = "NEUTRALIZE_IMMEDIATELY"
    /\ SameRunOn(terminate(op.pre_gate)).ret.safelock_status = "TERMINATED"
    /\ op.ret.safelock_status = "ACTIVE"

\* C21: run never changes the gate: for every text, context and starting
\* gate the capacity, status and tainted flag after the run are those before
\* it, on the blocked and on the classified path, and the verdict's
\* safelock_status is the status the gate had before the call.
C21_GateUnchanged ==
    RunDone =>
        /\ safelock = op.pre_gate
        /\ op.ret.safelock_status = op.pre_gate.status
        /\ \A g \in AllGates :
              LET r == SameRunOn(g)
              IN  /\ r.gate = g
                  /\ r.ret.safelock_status = g.status

\* a classified run on an ACTIVE gate with capacity to spend, after a
\* blocked run on the same gate
C21_Witness ==
    /\ RunDone /\ op.classified
    /\ Len(verdicts) = 2 /\ verdicts[1].action = "DENY"
    /\ op.pre_gate = [capacity |-> MaxCapacity, status |-> "ACTIVE", is_tainted |-> FALSE]
    /\ safelock = op.pre_gate
    /\ SameRunOn(degrade(op.pre_gate)).ret.safelock_status = "DEGRADED"

\* C20: whether run short-circuits to DENY depends only on the text: a text
\* with bypass phrasing or a prohibited-domain keyword is denied under every
\* context_overrides, and a clean text is denied under none.
C20_DenyDependsOnTextOnly ==
    RunDone => (op.ret.action = "DENY" <=> (TextDomain \/ TextBypass))

(* ------------------------------ concurrency properties ------------------ *)

\* the threads whose record has been handed to Registry.write
Wrote == {t \in Threads : threads.w[t].pc \in {"written", "returned"}}

AllReturned == \A t \in Threads : threads.w[t].pc = "returned"

\* C15: N concurrent deliberations on one Registry leave all() with length
\* N and by_dilemma(id) with exactly the one record of each case; under no
\* interleaving is a record lost or duplicated, and a reader only ever sees
\* whole records, in log order.
C15_NoLostRecord ==
    /\ Len(log) = Cardinality(Wrote)
    /\ \A t \in Wrote :
          by_dilemma(log, threads.w[t].ret.dilemma_id) = <<to_dict(threads.w[t].record)>>
    /\ \A i \in 1 .. Len(log) : \E t \in Wrote : log[i] = threads.w[t].record
    /\ AllReturned => Len(all(log)) = MaxThreads
    /\ threads.r.pc \in {"reading", "returned"} =>
          /\ Len(threads.r.acc) <= Len(log)
          /\ \A i \in 1 .. Len(threads.r.acc) :
                /\ threads.r.acc[i] = to_dict(log[i])
                /\ \E t \in Wrote : threads.r.acc[i] = to_dict(threads.w[t].record)

\* two deliberations that both built their record before either wrote it,
\* with a reader that started in between and saw both
C15_Witness ==
    /\ AllReturned
    /\ \A t \in Threads : threads.w[t].seen = <<>>
    /\ threads.r.pc = "returned" /\ Len(threads.r.acc) = MaxThreads
    /\ Len(log) = MaxThreads

\* the authorize calls that have returned
AuthorizeReturned(c) ==
    /\ callers[c].pc = "returned"
    /\ callers[c].call = "authorize"

\* C16: authorize, degrade and terminate are atomic towards concurrent
\* callers: two authorize calls with positive costs that together exceed the
\* capacity never both return true, the capacity never becomes negative, and
\* an authorize begun after another caller's degrade or terminate has
\* returned gives false.
C16_GateAtomic ==
    /\ safelock.capacity >= 0
    /\ \A c, d \in Callers :
          /\ c # d
          /\ AuthorizeReturned(c) /\ AuthorizeReturned(d)
          /\ callers[c].cost > 0 /\ callers[d].cost > 0
          /\ callers[c].cost + callers[d].cost > capacity0
          => ~(callers[c].ret /\ callers[d].ret)
    /\ \A c \in Callers :
          AuthorizeReturned(c) /\ callers[c].after => ~callers[c].ret

(* ------------------------------ debate properties ----------------------- *)

DebateDone == debate.pc = "done"

\* C14: DebateEngine.run stops after at most 5 iterations; it returns
\* CONSENSUS only from an iteration whose convergence is >= 0.85 and that
\* flagged no paradox, BEDROCK only when all 5 iterations ran and the last
\* flagged a paradox, and UNRESOLVED otherwise.
C14_BoundedDebate ==
    /\ debate.pc = "loop" =>
          /\ debate.i <= 6
          /\ Len(debate.history) = debate.i - 1
    /\ DebateDone =>
          LET n == Len(debate.history)
              last == debate.history[n]
              status == debate.ret.status
              converged == /\ FLe[Double[85], last.convergence]
                           /\ ~last.paradox_detected
          IN  /\ n >= 1 /\ n <= 5
              /\ status \in {"CONSENSUS", "BEDROCK", "UNRESOLVED"}
              /\ status = "CONSENSUS" => converged
              /\ status = "BEDROCK" => (n = 5 /\ last.paradox_detected)
              /\ (~converged /\ ~(n = 5 /\ last.paradox_detected)) =>
                    status = "UNRESOLVED"
              /\ status = "UNRESOLVED" => (n = 5 /\ ~converged /\ ~last.paradox_detected)

\* a debate that would have converged but for the paradox, run to BEDROCK
C14_Witness ==
    /\ DebateDone
    /\ debate.ret.status = "BEDROCK"
    /\ Len(debate.history) = 5
    /\ FLe[Double[85], debate.history[1].convergence]
    /\ debate.history[1].paradox_detected

\* C19: in every iteration, for every context, each stance's entropy lies
\* in [0,1] and the convergence lies in [0,1].
C19_ScoresInUnitInterval ==
    debate.pc \in {"loop", "done"} =>
        \A k \in 1 .. Len(debate.history) :
            LET it == debate.history[k]
            IN  /\ FLe[Double[0], it.noble.entropy]
                /\ FLe[it.noble.entropy, Double[100]]
                /\ FLe[Double[0], it.adversary.entropy]
                /\ FLe[it.adversary.entropy, Double[100]]
                /\ FLe[Double[0], it.convergence]
                /\ FLe[it.convergence, Double[100]]

\* every iteration of the run so far measured the same
SameEveryIteration ==
    \A k \in 1 .. Len(debate.history) :
        /\ debate.history[k].convergence = debate.history[1].convergence
        /\ debate.history[k].paradox_detected = debate.history[1].paradox_detected

\* CONSENSUS comes from iteration 1; any other verdict follows 5 iterations
ConsensusFirstOrNever ==
    DebateDone =>
        IF debate.ret.status = "CONSENSUS"
        THEN Len(debate.history) = 1
        ELSE Len(debate.history) = MAX_ITERATIONS

\* the distance between two magnitudes
BigDist[a \in Numerals, b \in Numerals] ==
    IF BigLess[a, b] THEN BigSub[b, a] ELSE BigSub[a, b]

\* x and y differ by at most one part in 2^52 of y
Near[x \in Floats, y \in Floats] ==
    LET dist == BigDist[x.mag, y.mag]
    IN  /\ x.neg = y.neg
        /\ BitLen[dist] + Significand - 1 <= Width
        /\ ~BigLess[y.mag, Shl[dist, Significand - 1]]

\* C22 as stated: every iteration computes the same convergence and paradox
\* flag, CONSENSUS is returned at iteration 1 or never, a run that does not
\* return at iteration 1 performs all 5 iterations, and the UNRESOLVED final
\* convergence equals the convergence of each single iteration.
C22_MeanEqualsEach ==
    debate.pc \in {"loop", "done"} =>
        /\ SameEveryIteration
        /\ ConsensusFirstOrNever
        /\ (DebateDone /\ debate.ret.status = "UNRESOLVED") =>
              \A k \in 1 .. Len(debate.history) :
                  debate.ret.final_convergence = debate.history[k].convergence

\* C22, amended: every iteration computes the same convergence and paradox
\* flag, CONSENSUS is returned at iteration 1 or never, a run that does not
\* return at iteration 1 performs all 5 iterations, and the UNRESOLVED final
\* convergence is within one part in 2^52 of the convergence of each single
\* iteration: the float mean may differ from it in the last digit.
C22_MeanNearEach ==
    debate.pc \in {"loop", "done"} =>
        /\ SameEveryIteration
        /\ ConsensusFirstOrNever
        /\ (DebateDone /\ debate.ret.status = "UNRESOLVED") =>
              \A k \in 1 .. Len(debate.history) :
                  Near[debate.ret.final_convergence, debate.history[k].convergence]

\* an UNRESOLVED run of 5 iterations whose mean is not the convergence of
\* its iterations
C22_Witness ==
    /\ DebateDone
    /\ debate.ret.status = "UNRESOLVED"
    /\ Len(debate.history) = MAX_ITERATIONS
    /\ debate.ret.final_convergence # debate.history[1].convergence
    /\ Near[debate.ret.final_convergence, debate.history[1].convergence]

====
